---- MODULE Spec2Model ----
(***************************************************************************)
(* Model of the one-way folder synchronisation of veeam-folder-sync        *)
(* (src/folder_sync/_folder_sync.py).  The file system is one tree `fs`    *)
(* holding the source folder under the name "S" and the replica folder     *)
(* under the name "R"; a synchronisation run is a stack of _folder_sync    *)
(* invocations that is advanced one file-system operation at a time.       *)
(* The user's crontab, which src/folder_sync/manage_jobs.py and src/main.py *)
(* edit, is the list `tab`.                                                *)
(***************************************************************************)
EXTENDS Integers, Sequences, FiniteSets, TLC

VARIABLES fs,      \* the file system: a directory node with the entries "S" and "R"
          stack,   \* the active _folder_sync invocations, innermost last
          log,     \* the lines the current run has appended to the log file
          status,  \* "idle", "running", "returned" or "raised"
          exc,     \* the exception a raised run ended with
          runs,    \* number of runs started so far
          faults,  \* number of file-system operations the environment has failed
          fs0,     \* the file system when the current run started
          fin,     \* the invocations of the current run that have ended
          edit,    \* the change the user made to a mirrored source, if any
          raced,   \* TRUE once another process removed a source folder mid-run
          prev,    \* how the run before the current one went
          tab,     \* the user's crontab: the list of its jobs
          printed, \* what the scheduler functions have printed
          calls,   \* the calls of add_job_to_crontab and del_job_from_crontab made
          mains    \* the executions of main.py made

syncvars == <<fs, stack, log, status, exc, runs, faults, fs0, fin, edit, raced, prev>>
cronvars == <<tab, printed, calls, mains>>
vars == <<syncvars, cronvars>>

----------------------------------------------------------------------------
(* Bounds *)

MaxFaults == 1
MaxRuns == 2
MaxCalls == 3

----------------------------------------------------------------------------
(* File-system nodes and paths *)

Absent == [t |-> "none", d |-> <<>>, m |-> 0, e |-> <<>>]
File(d, m) == [t |-> "f", d |-> d, m |-> m, e |-> <<>>]
Dir(e) == [t |-> "d", d |-> <<>>, m |-> 0, e |-> e]

\* All entry names of the model, in the order list.sort() gives them.
NameSeq == <<"a", "b", "c", "tags">>

\* filecmp.DEFAULT_IGNORES, restricted to the names of the model.  The
\* code calls filecmp.dircmp(source, replica) without an ignore argument,
\* so the names RCS, CVS, tags, .git, .hg, .bzr, _darcs and __pycache__ are
\* left out of both listings.
DEFAULT_IGNORES == {"tags"}

SortedSeq(S) == SelectSeq(NameSeq, LAMBDA n : n \in S)

Last(p) == p[Len(p)]
Front(p) == SubSeq(p, 1, Len(p) - 1)

IsPrefix(p, q) == Len(p) <= Len(q) /\ SubSeq(q, 1, Len(p)) = p

RECURSIVE Get(_, _)
Get(n, p) ==
    IF p = <<>> THEN n
    ELSE IF n.t = "d" /\ Head(p) \in DOMAIN n.e
         THEN Get(n.e[Head(p)], Tail(p))
         ELSE Absent

RECURSIVE Put(_, _, _)
Put(n, p, v) ==
    IF p = <<>> THEN v
    ELSE LET h == Head(p)
             child == IF h \in DOMAIN n.e THEN n.e[h] ELSE Absent
             new == Put(child, Tail(p), v)
         IN  IF new.t = "none"
             THEN Dir([k \in DOMAIN n.e \ {h} |-> n.e[k]])
             ELSE Dir([k \in DOMAIN n.e \cup {h} |-> IF k = h THEN new ELSE n.e[k]])

Exists(f, p) == Get(f, p).t # "none"
IsDirPath(f, p) == Get(f, p).t = "d"
Join(p, name) == Append(p, name)

SRC == <<"S">>
REP == <<"R">>

----------------------------------------------------------------------------
(* shutil and os operations.  Each returns [ok, fs]: whether the call       *)
(* returned without raising, and the file system it leaves.                *)

\* shutil.copy2 of the regular file f onto the node dst found at a
\* destination whose last component is base: a directory destination
\* receives the file under the name base, anything else is overwritten;
\* content and modification time are preserved.
CopyInto(f, dst, base) ==
    IF dst.t = "d"
    THEN IF base \in DOMAIN dst.e /\ dst.e[base].t = "d"
         THEN [ok |-> FALSE, n |-> dst]
         ELSE [ok |-> TRUE,
               n |-> Dir([k \in DOMAIN dst.e \cup {base} |->
                            IF k = base THEN f ELSE dst.e[k]])]
    ELSE [ok |-> TRUE, n |-> f]

\* Variant: a copy that creates the sub-folders but does not fill them.
MergeTreeShallow(s, d, existOk) ==
    IF d.t = "f" \/ (d.t = "d" /\ ~existOk)
    THEN [ok |-> FALSE, n |-> d]
    ELSE [ok |-> TRUE,
          n |-> Dir([k \in DOMAIN s.e |->
                       IF s.e[k].t = "d" THEN Dir(<<>>) ELSE s.e[k]])]

\* shutil.copytree of the directory node s onto the node d: os.makedirs
\* fails on an existing file (or on an existing directory unless
\* dirs_exist_ok), every entry of s is copied, errors are collected and
\* raised at the end.
RECURSIVE MergeTree(_, _, _)
MergeTree(s, d, existOk) ==
    IF d.t = "f" \/ (d.t = "d" /\ ~existOk)
    THEN [ok |-> FALSE, n |-> d]
    ELSE LET names == DOMAIN s.e
             old(k) == IF k \in DOMAIN d.e THEN d.e[k] ELSE Absent
             sub(k) == IF s.e[k].t = "d"
                       THEN MergeTree(s.e[k], old(k), existOk)
                       ELSE CopyInto(s.e[k], old(k), k)
         IN  [ok |-> \A k \in names : sub(k).ok,
              n |-> Dir([k \in DOMAIN d.e \cup names |->
                           IF k \in names THEN sub(k).n ELSE d.e[k]])]

\* No proper ancestor of p is a regular file.
AncestorsOk(f, p) ==
    \A i \in 1..(Len(p) - 1) : Get(f, SubSeq(p, 1, i)).t # "f"

CopyTree(f, sp, rp, existOk) ==
    IF ~IsDirPath(f, sp) \/ ~AncestorsOk(f, rp)
    THEN [ok |-> FALSE, fs |-> f]
    ELSE LET m == MergeTree(Get(f, sp), Get(f, rp), existOk)
         IN  [ok |-> m.ok, fs |-> Put(f, rp, m.n)]

Copy2(f, sp, rp) ==
    IF Get(f, sp).t # "f" \/ ~IsDirPath(f, Front(rp))
    THEN [ok |-> FALSE, fs |-> f]
    ELSE LET m == CopyInto(Get(f, sp), Get(f, rp), Last(sp))
         IN  [ok |-> m.ok, fs |-> Put(f, rp, m.n)]

RmTree(f, p) ==
    IF ~IsDirPath(f, p)
    THEN [ok |-> FALSE, fs |-> f]
    ELSE [ok |-> TRUE, fs |-> Put(f, p, Absent)]

OsRemove(f, p) ==
    IF Get(f, p).t # "f"
    THEN [ok |-> FALSE, fs |-> f]
    ELSE [ok |-> TRUE, fs |-> Put(f, p, Absent)]

\* The environment makes an operation fail (permission denied, I/O error):
\* the call raises an OSError and leaves the file system as it was.
Denied(f) == [ok |-> FALSE, fs |-> f]

----------------------------------------------------------------------------
(* filecmp *)

\* filecmp._sig: (type, size, modification time)
Sig(n) == <<n.t, Len(n.d), n.m>>

\* filecmp.cmp with shallow=True
Cmp(f1, f2) ==
    IF f1.t # "f" \/ f2.t # "f" THEN FALSE
    ELSE IF Sig(f1) = Sig(f2) THEN TRUE
    ELSE IF Len(f1.d) # Len(f2.d) THEN FALSE
    ELSE f1.d = f2.d

\* dircmp.phase0: the names of a directory that are not ignored
Listing(f, p) == DOMAIN Get(f, p).e \ DEFAULT_IGNORES

\* filecmp.dircmp(a, b): phases 0 to 3
DirCmp(f, a, b) ==
    LET left == Listing(f, a)
        right == Listing(f, b)
        common == left \cap right
        ta(x) == Get(f, Join(a, x)).t
        tb(x) == Get(f, Join(b, x)).t
        cdirs == {x \in common : ta(x) = "d" /\ tb(x) = "d"}
        cfiles == {x \in common : ta(x) = "f" /\ tb(x) = "f"}
    IN  [left_only |-> SortedSeq(left \ right),
         right_only |-> SortedSeq(right \ left),
         common_dirs |-> SortedSeq(cdirs),
         common_funny |-> SortedSeq(common \ (cdirs \cup cfiles)),
         diff_files |-> SortedSeq({x \in cfiles :
                           ~Cmp(Get(f, Join(a, x)), Get(f, Join(b, x)))})]

----------------------------------------------------------------------------
(* Log lines and invocation frames *)

\* One line of the log: what was logged, and the path(s) it names.
Line(k, s, r) == [k |-> k, s |-> s, r |-> r]

\* One invocation of _folder_sync(src, rep, log_file_path).  copy, del and
\* dirs are the lists the comparison produced; ci, di and ri count the
\* entries of each list already processed; cok and dok are the return_val
\* of the two helper loops.
Frame(src, rep) ==
    [src |-> src, rep |-> rep, pc |-> "Start",
     copy |-> <<>>, ci |-> 0, cok |-> TRUE,
     del |-> <<>>, di |-> 0, dok |-> TRUE,
     dirs |-> <<>>, ri |-> 0, out |-> "active"]

Top == stack[Len(stack)]
Running == status = "running" /\ stack # <<>>

\* Variant: the common folders are copied again as well.
CopyListWithCommon(c) == c.left_only \o c.diff_files \o c.common_dirs

\* The list handed to _copy_new_modified_files
CopyList(c) == c.left_only \o c.diff_files

\* Variant: the names only the source has are deleted from the replica.
DeleteListLeft(c) == c.left_only

\* Variant: the common folders are deleted from the replica as well.
DeleteListWithCommon(c) == c.right_only \o c.common_dirs

\* The list handed to _delete_locations
DeleteList(c) == c.right_only

\* Variant: the deletions are made under the source folder.
DeleteRootSource(f) == f.src

\* The folder _delete_locations deletes under
DeleteRoot(f) == f.rep

\* The folder _copy_new_modified_files writes under
CopyRoot(f) == f.rep

\* Variant: the recursion starts right after the copies.
AfterReconcileRecurses(ok) == IF ok THEN "Recurse" ELSE "Return"

\* Variant: the result of _copy_new_modified_files is not looked at.
AfterReconcileUnchecked(ok) == "Purge"

\* _folder_sync after _copy_new_modified_files returned ok
AfterReconcile(ok) == IF ok THEN "Purge" ELSE "Return"

\* Variant: the result of _delete_locations is not looked at.
AfterPurgeUnchecked(ok) == "Recurse"

\* _folder_sync after _delete_locations returned ok
AfterPurge(ok) == IF ok THEN "Recurse" ELSE "Return"

\* The for loop of _copy_new_modified_files has gone through its list
CopyLoopDone(f) == f.ci = Len(f.copy)

\* Variant: the loop of _delete_locations stops at the first failure.
DeleteLoopStops(f) == f.di = Len(f.del) \/ ~f.dok

\* The for loop of _delete_locations has gone through its list
DeleteLoopDone(f) == f.di = Len(f.del)

\* The for loop over common_dirs has gone through its list
RecurseLoopDone(f) == f.ri = Len(f.dirs)

\* Variant: return_val is that of the last entry.
ReturnValLast(sofar, ok) == ok

\* return_val after an entry was processed
ReturnVal(sofar, ok) == sofar /\ ok

\* The innermost invocation returns with outcome out.
Return(out) ==
    /\ fin' = Append(fin, [Top EXCEPT !.out = out])
    /\ stack' = Front(stack)
    /\ status' = IF Len(stack) = 1 THEN "returned" ELSE status
    /\ exc' = exc

RECURSIVE Unwound(_)
Unwound(st) ==
    IF st = <<>> THEN <<>>
    ELSE <<[st[Len(st)] EXCEPT !.out = "raised"]>> \o Unwound(Front(st))

\* The innermost invocation raises e: no invocation catches it, so every
\* active invocation ends and the run ends with the exception.
Raise(e) ==
    /\ fin' = fin \o Unwound(stack)
    /\ stack' = <<>>
    /\ status' = "raised"
    /\ exc' = e

\* The environment may make the operation fail instead of letting it act.
Attempt(real, deny) == IF deny THEN Denied(fs) ELSE real

CanDeny(deny) ==
    /\ deny => faults < MaxFaults
    /\ faults' = IF deny THEN faults + 1 ELSE faults

----------------------------------------------------------------------------
(* The synchronisation run *)

\* No operation of the run that has ended failed.
Clean ==
    /\ status \in {"returned", "raised"}
    /\ exc # "Error"
    /\ \A i \in DOMAIN fin : fin[i].cok /\ fin[i].dok

\* __main__: _folder_sync(sys.argv[1], sys.argv[2], sys.argv[3])
StartRun ==
    /\ status # "running"
    /\ runs < MaxRuns
    /\ stack' = <<Frame(SRC, REP)>>
    /\ status' = "running"
    /\ exc' = "none"
    /\ log' = <<>>
    /\ fin' = <<>>
    /\ fs0' = fs
    /\ runs' = runs + 1
    /\ prev' = [clean |-> Clean, lines |-> Len(log)]
    /\ UNCHANGED <<fs, faults, edit, raced, cronvars>>

\* Variant: the missing source is logged and the invocation returns.
SourceMissingSwallowed ==
    /\ Running
    /\ Top.pc = "Start"
    /\ ~Exists(fs, Top.src)
    /\ log' = Append(log, Line("SourceNotFound", Top.src, <<>>))
    /\ Return("SourceMissing")
    /\ UNCHANGED <<fs, runs, faults, fs0, edit, raced, prev, cronvars>>

\* The source folder does not exist: log the condition and raise.
SourceMissing ==
    /\ Running
    /\ Top.pc = "Start"
    /\ ~Exists(fs, Top.src)
    /\ log' = Append(log, Line("SourceNotFound", Top.src, <<>>))
    /\ Raise("FileNotFoundError")
    /\ UNCHANGED <<fs, runs, faults, fs0, edit, raced, prev, cronvars>>

\* The replica folder does not exist: log it, copy the whole source folder
\* and return.  shutil.copytree is not guarded: its failure is raised.
FullCopy ==
    /\ Running
    /\ Top.pc = "Start"
    /\ Exists(fs, Top.src)
    /\ ~Exists(fs, Top.rep)
    /\ \E deny \in BOOLEAN :
         LET op == Attempt(CopyTree(fs, Top.src, Top.rep, FALSE), deny)
         IN  /\ CanDeny(deny)
             /\ fs' = op.fs
             /\ log' = Append(log, Line("ReplicaNotFound", Top.src, Top.rep))
             /\ IF op.ok THEN Return("FullCopy") ELSE Raise("Error")
    /\ UNCHANGED <<runs, fs0, edit, raced, prev, cronvars>>

\* Both folders exist: compare them, one level deep.
Compare ==
    /\ Running
    /\ Top.pc = "Start"
    /\ Exists(fs, Top.src)
    /\ Exists(fs, Top.rep)
    /\ LET c == DirCmp(fs, Top.src, Top.rep)
       IN  stack' = [stack EXCEPT ![Len(stack)] =
                        [@ EXCEPT !.pc = "Reconcile",
                                  !.copy = CopyList(c),
                                  !.del = DeleteList(c),
                                  !.dirs = c.common_dirs]]
    /\ UNCHANGED <<fs, log, status, exc, runs, faults, fs0, fin, edit, raced, prev, cronvars>>

\* One iteration of the loop of _copy_new_modified_files.
CopyEntry ==
    /\ Running
    /\ Top.pc = "Reconcile"
    /\ ~CopyLoopDone(Top)
    /\ \E deny \in BOOLEAN :
         LET name == Top.copy[Top.ci + 1]
             sp == Join(Top.src, name)
             rp == Join(CopyRoot(Top), name)
             isdir == IsDirPath(fs, sp)
             op == Attempt(IF isdir THEN CopyTree(fs, sp, rp, TRUE)
                                    ELSE Copy2(fs, sp, rp), deny)
             said == Line(IF isdir THEN "CopyFolder" ELSE "CopyFile", sp, rp)
         IN  /\ CanDeny(deny)
             /\ fs' = op.fs
             /\ log' = IF op.ok THEN Append(log, said)
                       ELSE log \o <<said, Line("CopyException", <<name>>, <<>>)>>
             /\ stack' = [stack EXCEPT ![Len(stack)] =
                             [@ EXCEPT !.ci = @ + 1,
                                       !.cok = ReturnVal(@, op.ok)]]
    /\ UNCHANGED <<status, exc, runs, fs0, fin, edit, raced, prev, cronvars>>

\* _copy_new_modified_files has returned.
EndReconcile ==
    /\ Running
    /\ Top.pc = "Reconcile"
    /\ CopyLoopDone(Top)
    /\ IF AfterReconcile(Top.cok) = "Return"
       THEN Return("CopyFailed")
       ELSE /\ stack' = [stack EXCEPT ![Len(stack)].pc = AfterReconcile(Top.cok)]
            /\ UNCHANGED <<status, exc, fin>>
    /\ UNCHANGED <<fs, log, runs, faults, fs0, edit, raced, prev, cronvars>>

\* One iteration of the loop of _delete_locations.
DeleteEntry ==
    /\ Running
    /\ Top.pc = "Purge"
    /\ ~DeleteLoopDone(Top)
    /\ \E deny \in BOOLEAN :
         LET name == Top.del[Top.di + 1]
             p == Join(DeleteRoot(Top), name)
             isdir == IsDirPath(fs, p)
             op == Attempt(IF isdir THEN RmTree(fs, p) ELSE OsRemove(fs, p), deny)
             said == Line(IF isdir THEN "DeleteFolder" ELSE "DeleteFile", p, <<>>)
         IN  /\ CanDeny(deny)
             /\ fs' = op.fs
             /\ log' = IF op.ok THEN Append(log, said)
                       ELSE log \o <<said, Line("DeleteException", <<name>>, <<>>)>>
             /\ stack' = [stack EXCEPT ![Len(stack)] =
                             [@ EXCEPT !.di = @ + 1,
                                       !.dok = ReturnVal(@, op.ok)]]
    /\ UNCHANGED <<status, exc, runs, fs0, fin, edit, raced, prev, cronvars>>

\* _delete_locations has returned.
EndPurge ==
    /\ Running
    /\ Top.pc = "Purge"
    /\ DeleteLoopDone(Top)
    /\ IF AfterPurge(Top.dok) = "Return"
       THEN Return("PurgeFailed")
       ELSE /\ stack' = [stack EXCEPT ![Len(stack)].pc = AfterPurge(Top.dok)]
            /\ UNCHANGED <<status, exc, fin>>
    /\ UNCHANGED <<fs, log, runs, faults, fs0, edit, raced, prev, cronvars>>

\* One iteration of the loop over common_dirs: the recursive call.
Recurse ==
    /\ Running
    /\ Top.pc = "Recurse"
    /\ ~RecurseLoopDone(Top)
    /\ LET name == Top.dirs[Top.ri + 1]
       IN  stack' = Append([stack EXCEPT ![Len(stack)].ri = @ + 1],
                           Frame(Join(Top.src, name), Join(Top.rep, name)))
    /\ UNCHANGED <<fs, log, status, exc, runs, faults, fs0, fin, edit, raced, prev, cronvars>>

\* The loop over common_dirs is over: the invocation returns.
EndRecurse ==
    /\ Running
    /\ Top.pc = "Recurse"
    /\ RecurseLoopDone(Top)
    /\ Return("Done")
    /\ UNCHANGED <<fs, log, runs, faults, fs0, edit, raced, prev, cronvars>>

SyncStep ==
    \/ SourceMissing \/ FullCopy \/ Compare
    \/ CopyEntry \/ EndReconcile
    \/ DeleteEntry \/ EndPurge
    \/ Recurse \/ EndRecurse

----------------------------------------------------------------------------
(* The user and other processes *)

Names == {NameSeq[i] : i \in DOMAIN NameSeq}

\* Paths of entries relative to the source folder, one or two levels deep.
RelPaths == {<<n>> : n \in Names} \cup {<<n, m>> : n \in Names, m \in Names}

FileNew == File(<<1>>, 1)
FileOld == File(<<2>>, 2)
FileTouched == File(<<2>>, 1)

\* The replica is an exact copy of the source.
Mirror ==
    /\ IsDirPath(fs, SRC)
    /\ Get(fs, SRC) = Get(fs, REP)

NoEdit == [k |-> "none", p |-> <<>>, at |-> 0]

\* Between two runs the user removes one file from a mirrored source.
UserRemoveFile ==
    /\ status # "running"
    /\ runs < MaxRuns
    /\ edit = NoEdit
    /\ Mirror
    /\ \E q \in RelPaths :
         /\ Get(fs, SRC \o q).t = "f"
         /\ fs' = Put(fs, SRC \o q, Absent)
         /\ edit' = [k |-> "remove", p |-> q, at |-> runs]
    /\ UNCHANGED <<stack, log, status, exc, runs, faults, fs0, fin, raced, prev, cronvars>>

\* The directories with files the user adds.
NewDirs == {Dir([n \in D |-> FileNew]) : D \in {{"a"}, {"a", "tags"}}}

\* Between two runs the user adds a directory with files to a mirrored source.
UserAddDir ==
    /\ status # "running"
    /\ runs < MaxRuns
    /\ edit = NoEdit
    /\ Mirror
    /\ \E q \in RelPaths, d \in NewDirs :
         /\ ~Exists(fs, SRC \o q)
         /\ IsDirPath(fs, Front(SRC \o q))
         /\ fs' = Put(fs, SRC \o q, d)
         /\ edit' = [k |-> "add", p |-> q, at |-> runs]
    /\ UNCHANGED <<stack, log, status, exc, runs, faults, fs0, fin, raced, prev, cronvars>>

\* While a run is in progress another process removes a folder of the source.
EnvRemoveSourceDir ==
    /\ Running
    /\ ~raced
    /\ \E n \in Names :
         /\ IsDirPath(fs, SRC \o <<n>>)
         /\ fs' = Put(fs, SRC \o <<n>>, Absent)
    /\ raced' = TRUE
    /\ UNCHANGED <<stack, log, status, exc, runs, faults, fs0, fin, edit, prev, cronvars>>

----------------------------------------------------------------------------
(* Initial file systems *)

\* The directories whose entries are named in names and drawn from nodes.
DirsOver(names, nodes) ==
    {Dir(e) : e \in UNION {[D -> nodes] : D \in SUBSET names}}

\* What an entry of the source folder, and of the replica folder, may be.
\* "a" may be a folder holding a folder, "b" a folder holding files, "c"
\* and the ignored name "tags" are files present on one side at most.
SrcNodes(n) ==
    IF n = "a"
    THEN {Absent, FileNew} \cup DirsOver({"a"}, {FileNew, Dir(<<>>)})
    ELSE IF n = "b"
    THEN {Absent, FileNew} \cup DirsOver({"a"}, {FileNew})
    ELSE {Absent, FileNew}

RepNodes(n) ==
    IF n = "a"
    THEN {Absent, FileNew, FileOld, FileTouched}
         \cup DirsOver({"a"}, {FileNew, FileOld, Dir([k \in {"a"} |-> FileOld])})
    ELSE IF n = "b"
    THEN {Absent, FileNew, FileOld} \cup DirsOver({"a"}, {FileNew, FileOld})
    ELSE {Absent, FileNew}

Pairs(n) ==
    IF n \in {"a", "b"}
    THEN SrcNodes(n) \X RepNodes(n)
    ELSE {<<Absent, Absent>>, <<FileNew, Absent>>, <<Absent, FileNew>>}

\* The folder whose entry n is pick[n], for the names picked present.
Folder(pick) ==
    Dir([n \in {k \in Names : pick[k].t # "none"} |-> pick[n]])

Init ==
    /\ \E pa \in Pairs("a"), pb \in Pairs("b"), pc \in Pairs("c"),
          pt \in Pairs("tags"), hasS \in BOOLEAN, hasR \in BOOLEAN :
         LET s == Folder([a |-> pa[1], b |-> pb[1], c |-> pc[1], tags |-> pt[1]])
             r == Folder([a |-> pa[2], b |-> pb[2], c |-> pc[2], tags |-> pt[2]])
         IN  fs = Dir([k \in {x \in {"S", "R"} : (x = "S" /\ hasS) \/ (x = "R" /\ hasR)} |->
                         IF k = "S" THEN s ELSE r])
    /\ stack = <<>>
    /\ log = <<>>
    /\ status = "idle"
    /\ exc = "none"
    /\ runs = 0
    /\ faults = 0
    /\ fs0 = fs
    /\ fin = <<>>
    /\ edit = NoEdit
    /\ raced = FALSE
    /\ prev = [clean |-> FALSE, lines |-> 0]
    /\ tab = <<>>
    /\ printed = <<>>
    /\ calls = <<>>
    /\ mains = <<>>

Next ==
    \/ StartRun
    \/ SyncStep
    \/ UserRemoveFile
    \/ UserAddDir

Spec == Init /\ [][Next]_vars

\* A run that has started is carried on: the interpreter executes the next
\* statement of _folder_sync for as long as there is one.
SpecLive == Init /\ [][Next]_vars /\ WF_vars(SyncStep)

NextRace == Next \/ EnvRemoveSourceDir

SpecRace == Init /\ [][NextRace]_vars

----------------------------------------------------------------------------
(* The scheduler: manage_jobs.py and main.py *)

\* A job of the crontab: its command and the n of its minute field */n.
Job(command, interval) == [command |-> command, every |-> interval]

\* Variant: no job of the crontab is taken to match.
FoundJobsNone(t, command) == {}

\* [job for job in cron if job.command == command]
FoundJobs(t, command) == {i \in DOMAIN t : t[i].command = command}

\* for job in found_jobs: job.minute.every(interval)
SetEvery(t, found, interval) ==
    [i \in DOMAIN t |-> IF i \in found THEN [t[i] EXCEPT !.every = interval] ELSE t[i]]

\* for job in jobs_to_remove: cron.remove(job)
Remove(t, found) ==
    LET Keep(i) == i \notin found
        kept == SelectSeq([i \in DOMAIN t |-> i], Keep)
    IN  [k \in DOMAIN kept |-> t[kept[k]]]

\* add_job_to_crontab(command, interval) on the crontab t: the crontab it
\* writes and what it prints.
add_job_to_crontab(t, command, interval) ==
    LET found_jobs == FoundJobs(t, command)
    IN  IF Cardinality(found_jobs) = 0
        THEN [tab |-> Append(t, Job(command, interval)), said |-> "added"]
        ELSE [tab |-> SetEvery(t, found_jobs, interval), said |-> "exists"]

\* del_job_from_crontab(command) on the crontab t
del_job_from_crontab(t, command) ==
    LET jobs_to_remove == FoundJobs(t, command)
    IN  IF Cardinality(jobs_to_remove) > 0
        THEN [tab |-> Remove(t, jobs_to_remove), said |-> "removed"]
        ELSE [tab |-> t, said |-> "nomatch"]

\* One call that has returned: the function, its arguments, the crontab
\* before and after it, and the message it printed last.
Call(op, command, interval, r) ==
    [op |-> op, command |-> command, interval |-> interval,
     before |-> tab, after |-> r.tab, said |-> r.said]

\* The command-line arguments main.py is run with.
SourceArgs == {"/s"}
ReplicaArgs == {"/r"}
LogArgs == {"/l"}
IntervalArgs == {"5", "10"}
ModeArgs == {"add", "ADD", "del", "Del", "sync"}

_MODE_ADD == "add"
_MODE_DEL == "del"

\* str.lower on the modes of the model
Lower(mode) ==
    CASE mode \in {"add", "ADD"} -> "add"
      [] mode \in {"del", "Del"} -> "del"
      [] OTHER -> mode

\* command_to_add, for main.py in the folder "." without a venv
CommandToAdd(source, replica, log_file) ==
    "cd " \o "." \o ";" \o "python" \o " " \o "./folder_sync/_folder_sync.py"
          \o " " \o source \o " " \o replica \o " " \o log_file

Commands ==
    {CommandToAdd(s, r, l) : s \in SourceArgs, r \in ReplicaArgs, l \in LogArgs}

\* How main.py ends once the mode was dispatched: the raise statement that
\* follows the if/elif is not in an else branch.
MainEnd(lower) == "ValueError"

\* A caller imports add_job_to_crontab from folder_sync and calls it.
AddJob ==
    /\ Len(calls) < MaxCalls
    /\ \E command \in Commands, interval \in IntervalArgs :
         LET r == add_job_to_crontab(tab, command, interval)
         IN  /\ tab' = r.tab
             /\ printed' = Append(printed, r.said)
             /\ calls' = Append(calls, Call("add", command, interval, r))
    /\ UNCHANGED <<mains, syncvars>>

\* A caller imports del_job_from_crontab from folder_sync and calls it.
DelJob ==
    /\ Len(calls) < MaxCalls
    /\ \E command \in Commands :
         LET r == del_job_from_crontab(tab, command)
         IN  /\ tab' = r.tab
             /\ printed' = Append(printed, r.said)
             /\ calls' = Append(calls, Call("del", command, "", r))
    /\ UNCHANGED <<mains, syncvars>>

\* python main.py <source> <replica> <interval> <log file> <mode>
Main ==
    /\ Len(calls) < MaxCalls
    /\ Len(mains) < MaxCalls
    /\ \E source \in SourceArgs, replica \in ReplicaArgs, log_file \in LogArgs,
          _sync_interval \in IntervalArgs, _mode \in ModeArgs :
         LET command_to_add == CommandToAdd(source, replica, log_file)
             lower == Lower(_mode)
             r == IF lower = _MODE_ADD
                  THEN add_job_to_crontab(tab, command_to_add, _sync_interval)
                  ELSE del_job_from_crontab(tab, command_to_add)
             made == IF lower = _MODE_ADD
                     THEN <<Call("add", command_to_add, _sync_interval, r)>>
                     ELSE IF lower = _MODE_DEL
                     THEN <<Call("del", command_to_add, "", r)>>
                     ELSE <<>>
         IN  /\ tab' = IF made = <<>> THEN tab ELSE r.tab
             /\ printed' = IF made = <<>> THEN printed ELSE Append(printed, r.said)
             /\ calls' = calls \o made
             /\ mains' = Append(mains, [mode |-> _mode,
                                        command |-> command_to_add,
                                        interval |-> _sync_interval,
                                        made |-> made,
                                        ended |-> MainEnd(lower)])
    /\ UNCHANGED syncvars

\* The crontabs the user may have before the scheduler is first used: empty,
\* with jobs of other commands, with the job, or with the job entered twice.
OtherJob == Job("backup", "30")

InitialTabs ==
    {<<>>, <<OtherJob>>}
    \cup {<<Job(c, "10")>> : c \in Commands}
    \cup {<<OtherJob, Job(c, "5")>> : c \in Commands}
    \cup {<<Job(c, "5"), OtherJob, Job(c, "10")>> : c \in Commands}

\* No synchronisation run is in progress and none was made.
SyncIdle ==
    /\ fs = Dir(<<>>)
    /\ stack = <<>>
    /\ log = <<>>
    /\ status = "idle"
    /\ exc = "none"
    /\ runs = 0
    /\ faults = 0
    /\ fs0 = fs
    /\ fin = <<>>
    /\ edit = NoEdit
    /\ raced = FALSE
    /\ prev = [clean |-> FALSE, lines |-> 0]

InitCron ==
    /\ SyncIdle
    /\ tab \in InitialTabs
    /\ printed = <<>>
    /\ calls = <<>>
    /\ mains = <<>>

NextCron == AddJob \/ DelJob \/ Main

SpecCron == InitCron /\ [][NextCron]_vars

----------------------------------------------------------------------------
(* Properties *)

Ended == status \in {"returned", "raised"}

\* The user has not touched the source since the current run started.
NoEditSinceStart == edit = NoEdit \/ edit.at < runs

Frames == stack \o fin

Entry(n, k) == IF k \in DOMAIN n.e THEN n.e[k] ELSE Absent

CopyKinds == {"CopyFolder", "CopyFile"}
DeleteKinds == {"DeleteFolder", "DeleteFile"}

\* The folders s and r hold the same names with the same types at every
\* level, names that are a file on one side and a folder on the other aside.
RECURSIVE SameShape(_, _)
SameShape(s, r) ==
    \A k \in DOMAIN s.e \cup DOMAIN r.e :
       LET a == Entry(s, k)
           b == Entry(r, k)
       IN  \/ a.t # "none" /\ b.t # "none" /\ a.t # b.t
           \/ a.t = b.t /\ (a.t = "d" => SameShape(a, b))

\* C1 - Convergence: after a run that returned and in which no copy and no
\* delete failed, the replica holds the same folders and files as the
\* source at every level, type mismatches aside.
C1_Convergence ==
    (status = "returned" /\ NoEditSinceStart /\ Clean)
        => SameShape(Get(fs, SRC), Get(fs, REP))

\* C3 - Partial failure containment: an invocation one of whose copies
\* failed deletes nothing and recurses into nothing (its replica-only
\* entries are still in the replica), and when it has returned every
\* entry of its copy list has been attempted.
C3_Containment ==
    \A i \in DOMAIN Frames :
       LET f == Frames[i]
       IN  ~f.cok =>
             /\ f.pc = "Reconcile"
             /\ f.di = 0
             /\ f.ri = 0
             /\ NoEditSinceStart =>
                  \A j \in DOMAIN f.del : Exists(fs, Join(f.rep, f.del[j]))
             /\ f.out = "CopyFailed" =>
                  \A j \in DOMAIN f.copy :
                     \E l \in DOMAIN log :
                        /\ log[l].k \in CopyKinds
                        /\ log[l].s = Join(f.src, f.copy[j])

\* A returned invocation whose first copy failed, whose second copy was
\* attempted after it, and which had a replica-only entry to delete.
C3_Witness ==
    \E i \in DOMAIN fin :
       LET f == fin[i]
       IN  /\ f.out = "CopyFailed"
           /\ Len(f.copy) >= 2
           /\ Len(f.del) >= 1
           /\ \E l \in DOMAIN log, m \in DOMAIN log :
                /\ l < m
                /\ log[l] = Line("CopyException", <<f.copy[1]>>, <<>>)
                /\ log[m].k \in CopyKinds
                /\ log[m].s = Join(f.src, f.copy[2])

\* C4 - The source is never modified by a run: while a run is in progress
\* and after it ended, however it ended, the source folder is what it was
\* when the run started; every copy writes under the replica folder and
\* every delete names a path under the replica folder.
C4_SourceUntouched ==
    (status # "idle" /\ NoEditSinceStart) =>
        /\ Get(fs, SRC) = Get(fs0, SRC)
        /\ \A l \in DOMAIN log :
              /\ log[l].k \in CopyKinds =>
                   IsPrefix(REP, log[l].r) /\ IsPrefix(SRC, log[l].s)
              /\ log[l].k \in DeleteKinds => IsPrefix(REP, log[l].s)

\* A run that copied one entry, deleted another, had an operation fail,
\* and returned.
C4_Witness ==
    /\ status = "returned"
    /\ NoEditSinceStart
    /\ \E l \in DOMAIN log : log[l].k \in CopyKinds
    /\ \E l \in DOMAIN log : log[l].k \in DeleteKinds
    /\ \E l \in DOMAIN log : log[l].k = "DeleteException"

\* The user has not touched the source between the previous run and the
\* current one.
NoEditBetween == edit = NoEdit \/ edit.at # runs - 1

WorkKinds == CopyKinds \cup DeleteKinds \cup {"ReplicaNotFound"}

\* C2 as stated - Idempotence: a second run on an unchanged source leaves
\* the replica as the first run left it and logs no copy and no delete.
C2_Idempotence ==
    (runs >= 2 /\ Ended /\ NoEditBetween) =>
        /\ Get(fs, REP) = Get(fs0, REP)
        /\ \A l \in DOMAIN log : log[l].k \notin WorkKinds

\* C2 amended - Idempotence after a run without failure: when no copy and
\* no delete of the previous run failed and the source was not changed
\* since, the current run never changes the replica and logs no copy and
\* no delete.
C2_IdempotenceAfterClean ==
    (runs >= 2 /\ prev.clean /\ NoEditBetween) =>
        /\ Get(fs, REP) = Get(fs0, REP)
        /\ \A l \in DOMAIN log : log[l].k \notin WorkKinds

\* A second run that went through several folders after a first run that
\* copied or deleted something without failure.
C2_Witness ==
    /\ runs = 2
    /\ status = "returned"
    /\ prev.clean
    /\ prev.lines >= 2
    /\ NoEditBetween
    /\ Len(fin) >= 2
    /\ log = <<>>

\* The run started with a source folder and without a replica folder.
FreshReplica ==
    /\ runs >= 1
    /\ NoEditSinceStart
    /\ Exists(fs0, SRC)
    /\ ~Exists(fs0, REP)

OnlyFullCopy ==
    /\ log = <<Line("ReplicaNotFound", SRC, REP)>>
    /\ Len(fin) = 1
    /\ fin[1].pc = "Start"

C6_MissingSource ==
    (Ended /\ runs >= 1 /\ ~Exists(fs0, SRC)) =>
        /\ status = "raised"
        /\ exc = "FileNotFoundError"
        /\ log = <<Line("SourceNotFound", SRC, <<>>)>>
        /\ fs = fs0
        /\ Len(fin) = 1
        /\ fin[1].pc = "Start"

\* A run that raised for a missing source next to a replica with entries.
C6_Witness ==
    /\ status = "raised"
    /\ exc = "FileNotFoundError"
    /\ ~Exists(fs, SRC)
    /\ DOMAIN Get(fs, REP).e # {}

\* C7 - The missing top-level source is the only condition under which a
\* run raises: a run that ended raised started without a source folder.
C7_OnlyMissingSourceRaises ==
    status = "raised" => ~Exists(fs0, SRC)

\* The lines of the log of one of the kinds that name s and r.
LinesFor(kinds, s, r) ==
    {l \in DOMAIN log : log[l].k \in kinds /\ log[l].s = s /\ log[l].r = r}

\* C8 - Deletion propagation: after the user removed a file from a
\* mirrored source, the next run (taken here without any failed
\* operation) removes the file from the replica and logs exactly one
\* deletion for it.
C8_DeletionPropagation ==
    (edit.k = "remove" /\ edit.at = runs - 1 /\ status = "returned" /\ Clean) =>
        /\ ~Exists(fs, REP \o edit.p)
        /\ Cardinality(LinesFor(DeleteKinds, REP \o edit.p, <<>>)) = 1

\* C9 - Addition propagation: after the user added a folder with files to
\* a mirrored source, the next run (taken here without any failed
\* operation) creates the folder with all it holds in the replica and
\* logs one copy for it.
C9_AdditionPropagation ==
    (edit.k = "add" /\ edit.at = runs - 1 /\ status = "returned" /\ Clean) =>
        /\ Get(fs, REP \o edit.p) = Get(fs, SRC \o edit.p)
        /\ Cardinality(LinesFor(CopyKinds, SRC \o edit.p, REP \o edit.p)) = 1

\* C10 - Sibling independence: an invocation that started to recurse
\* makes the recursive call for every one of its common folders, whatever
\* happens in the calls made before.
C10_SiblingIndependence ==
    Ended => \A i \in DOMAIN fin :
                fin[i].pc = "Recurse" => fin[i].ri = Len(fin[i].dirs)

----------------------------------------------------------------------------
(* The two helper loops *)

\* The lines of the log that announce the copy of entry j of invocation f,
\* and the deletion of its entry j.
CopyLines(f, j) ==
    {l \in DOMAIN log : log[l].k \in CopyKinds /\ log[l].s = Join(f.src, f.copy[j])}

DeleteLines(f, j) ==
    {l \in DOMAIN log : log[l].k \in DeleteKinds /\ log[l].s = Join(f.rep, f.del[j])}

\* Line l is followed by the line that logs the failure of the entry name.
FailedAt(l, k, name) ==
    /\ l + 1 \in DOMAIN log
    /\ log[l + 1] = Line(k, <<name>>, <<>>)

\* C12 - Reconciler per-entry isolation: in every invocation the entries
\* of the copy list are attempted one by one in the order of the list,
\* whatever failed before; the loop is left only when the whole list has
\* been gone through; every failure is logged with the name of the entry;
\* return_val is true exactly when no attempted entry failed, and then
\* every entry of the list is in the replica as it is in the source.
C12_ReconcilerIsolation ==
    \A i \in DOMAIN Frames :
       LET f == Frames[i]
       IN  /\ \A j \in DOMAIN f.copy :
                Cardinality(CopyLines(f, j)) = IF j <= f.ci THEN 1 ELSE 0
           /\ \A j \in 1..f.ci, k \in 1..f.ci :
                j < k => \A l \in CopyLines(f, j), m \in CopyLines(f, k) : l < m
           /\ f.cok <=> \A j \in 1..f.ci : \A l \in CopyLines(f, j) :
                           ~FailedAt(l, "CopyException", f.copy[j])
           /\ (f.pc # "Reconcile" \/ f.out = "CopyFailed") => f.ci = Len(f.copy)
           /\ (status = "running" /\ f.pc = "Reconcile" /\ f.cok /\ f.ci = Len(f.copy)) =>
                \A j \in DOMAIN f.copy :
                   Get(fs, Join(f.rep, f.copy[j])) = Get(fs, Join(f.src, f.copy[j]))

\* An invocation that returned after its first copy failed and its second
\* copy succeeded.
C12_Witness ==
    \E i \in DOMAIN fin :
       LET f == fin[i]
       IN  /\ f.out = "CopyFailed"
           /\ Len(f.copy) >= 2
           /\ \A l \in CopyLines(f, 1) : FailedAt(l, "CopyException", f.copy[1])
           /\ \A l \in CopyLines(f, 2) : ~FailedAt(l, "CopyException", f.copy[2])
           /\ Get(fs, Join(f.rep, f.copy[2])) = Get(fs, Join(f.src, f.copy[2]))
           /\ ~Exists(fs, Join(f.rep, f.copy[1]))

\* C13 - Purger per-entry isolation: in every invocation the entries of
\* the delete list are attempted one by one, whatever failed before; the
\* loop is left only when the whole list has been gone through; every
\* failure is logged with the name of the entry; return_val is true
\* exactly when no attempted entry failed, and then none of the entries
\* is left in the replica.
C13_PurgerIsolation ==
    \A i \in DOMAIN Frames :
       LET f == Frames[i]
       IN  /\ \A j \in DOMAIN f.del :
                Cardinality(DeleteLines(f, j)) = IF j <= f.di THEN 1 ELSE 0
           /\ \A j \in 1..f.di, k \in 1..f.di :
                j < k => \A l \in DeleteLines(f, j), m \in DeleteLines(f, k) : l < m
           /\ f.dok <=> \A j \in 1..f.di : \A l \in DeleteLines(f, j) :
                           ~FailedAt(l, "DeleteException", f.del[j])
           /\ (f.pc = "Recurse" \/ f.out = "PurgeFailed") => f.di = Len(f.del)
           /\ (status = "running" /\ f.pc = "Purge" /\ f.dok /\ f.di = Len(f.del)) =>
                \A j \in DOMAIN f.del : ~Exists(fs, Join(f.rep, f.del[j]))

\* An invocation that returned after its first deletion failed and its
\* second deletion succeeded.
C13_Witness ==
    \E i \in DOMAIN fin :
       LET f == fin[i]
       IN  /\ f.out = "PurgeFailed"
           /\ Len(f.del) >= 2
           /\ \A l \in DeleteLines(f, 1) : FailedAt(l, "DeleteException", f.del[1])
           /\ \A l \in DeleteLines(f, 2) : ~FailedAt(l, "DeleteException", f.del[2])
           /\ Exists(fs, Join(f.rep, f.del[1]))
           /\ ~Exists(fs, Join(f.rep, f.del[2]))

----------------------------------------------------------------------------
(* Order of the operations *)

WorkLines == {l \in DOMAIN log : log[l].k \in CopyKinds \cup DeleteKinds}

\* The folder level a copy or delete line belongs to, relative to the
\* source folder (copies) or the replica folder (deletions).
Level(l) == Tail(Front(log[l].s))

ProperPrefix(p, q) == Len(p) < Len(q) /\ IsPrefix(p, q)

Rank(n) == CHOOSE i \in DOMAIN NameSeq : NameSeq[i] = n

\* The first position at which the paths p and q differ.
Fork(p, q) ==
    CHOOSE i \in DOMAIN p \cap DOMAIN q :
       /\ p[i] # q[i]
       /\ \A j \in 1..(i - 1) : p[j] = q[j]

\* The invocations made for the common folder j of invocation f.
Children(f, j) ==
    {k \in DOMAIN Frames : Frames[k].src = Join(f.src, f.dirs[j])}

\* C14 - Ordering within a level: an invocation deletes only after its
\* whole copy list and recurses only after its whole delete list; the
\* recursive calls are made in list order, each one ending before the
\* next one starts; accordingly, in the log, the copies of a level come
\* before the deletions of that level, the lines of a level before the
\* lines of the levels below it, and the lines of one sub-folder before
\* the lines of the next.
C14_Ordering ==
    /\ \A i \in DOMAIN Frames :
          LET f == Frames[i]
          IN  /\ f.di > 0 => f.ci = Len(f.copy)
              /\ f.ri > 0 => f.ci = Len(f.copy) /\ f.di = Len(f.del)
              /\ \A j \in DOMAIN f.dirs :
                    /\ j < f.ri => \E k \in Children(f, j) : Frames[k].out # "active"
                    /\ j > f.ri => Children(f, j) = {}
                    /\ Cardinality(Children(f, j)) <= 1
    /\ \A i \in 1..(Len(stack) - 1) :
          /\ stack[i].pc = "Recurse"
          /\ stack[i].ri >= 1
          /\ stack[i + 1].src = Join(stack[i].src, stack[i].dirs[stack[i].ri])
          /\ stack[i + 1].rep = Join(stack[i].rep, stack[i].dirs[stack[i].ri])
    /\ \A l \in WorkLines, m \in WorkLines :
          l < m =>
            LET p == Level(l)
                q == Level(m)
            IN  /\ p = q => ~(log[l].k \in DeleteKinds /\ log[m].k \in CopyKinds)
                /\ ~ProperPrefix(q, p)
                /\ (~IsPrefix(p, q) /\ ~IsPrefix(q, p)) =>
                      Rank(p[Fork(p, q)]) < Rank(q[Fork(p, q)])

\* A run that copied and then deleted at the top level, and then worked
\* in a sub-folder.
C14_Witness ==
    /\ status = "returned"
    /\ \E l \in WorkLines, m \in WorkLines, n \in WorkLines :
          /\ l < m /\ m < n
          /\ Level(l) = <<>> /\ log[l].k \in CopyKinds
          /\ Level(m) = <<>> /\ log[m].k \in DeleteKinds
          /\ Level(n) # <<>>

\* C15 - Purge failure stops the level: an invocation whose copies all
\* succeeded and one of whose deletions failed returns without a
\* recursive call for any of its common folders.
C15_PurgeFailureStops ==
    \A i \in DOMAIN Frames :
       LET f == Frames[i]
       IN  (f.cok /\ ~f.dok) =>
             /\ f.pc = "Purge"
             /\ f.ri = 0
             /\ f.out \in {"active", "PurgeFailed"}
             /\ \A j \in DOMAIN f.dirs : Children(f, j) = {}

\* An invocation that returned after a failed deletion and left a common
\* folder that still differs unvisited.
C15_Witness ==
    \E i \in DOMAIN fin :
       LET f == fin[i]
       IN  /\ f.out = "PurgeFailed"
           /\ f.cok
           /\ Len(f.dirs) >= 1
           /\ status = "returned"
           /\ NoEditSinceStart
           /\ Get(fs, Join(f.src, f.dirs[1])) # Get(fs, Join(f.rep, f.dirs[1]))

----------------------------------------------------------------------------
(* Entries whose type differs between the two sides *)

\* The names of the level of f that are a file on one side and a folder
\* on the other.
Mismatched(f) ==
    {n \in Listing(fs, f.src) \cap Listing(fs, f.rep) :
        Get(fs, Join(f.src, n)).t # Get(fs, Join(f.rep, n)).t}

InList(n, l) == \E i \in DOMAIN l : l[i] = n

\* C16 - Type-mismatch surfacing: right after the comparison of a level,
\* every name that is a file on one side and a folder on the other is in
\* the list handed to _copy_new_modified_files or in the list handed to
\* _delete_locations.
C16_TypeMismatchSurfaced ==
    (Running /\ Top.pc = "Reconcile" /\ Top.ci = 0) =>
       \A n \in Mismatched(Top) : InList(n, Top.copy) \/ InList(n, Top.del)

----------------------------------------------------------------------------
(* Where the whole source folder is copied *)

\* The folder pair of invocation f is, on both sides, the folder it was
\* when the run started.
Untouched(src, rep) ==
    /\ IsDirPath(fs, src)
    /\ IsDirPath(fs, rep)
    /\ Get(fs, src) = Get(fs0, src)
    /\ Get(fs, rep) = Get(fs0, rep)

\* C17 - Whole-subtree creation at the top level only: only the top-level
\* invocation takes the "replica does not exist" branch; a recursive
\* invocation starts on a folder that is a folder on both sides; and a
\* common folder the recursion has not reached yet is, on both sides,
\* still the folder it was: the copies and the deletions of its parent
\* level have neither removed nor replaced it.
C17_FullCopyAtTopOnly ==
    /\ \A i \in DOMAIN Frames :
          Frames[i].out = "FullCopy" => Frames[i].src = SRC /\ Frames[i].rep = REP
    /\ \A i \in 2..Len(stack) :
          stack[i].pc = "Start" => Untouched(stack[i].src, stack[i].rep)
    /\ \A i \in DOMAIN stack :
          \A j \in DOMAIN stack[i].dirs :
             j > stack[i].ri =>
                Untouched(Join(stack[i].src, stack[i].dirs[j]),
                          Join(stack[i].rep, stack[i].dirs[j]))

\* A recursive invocation is about to start, after its parent level made
\* a copy and a deletion.
C17_Witness ==
    /\ Len(stack) >= 2
    /\ Top.pc = "Start"
    /\ stack[1].ci > 0
    /\ stack[1].di > 0
    /\ IsDirPath(fs, Top.src)
    /\ IsDirPath(fs, Top.rep)

----------------------------------------------------------------------------
(* What the purger deletes *)

\* C19 - The purger never deletes content the source has: every name in
\* the list handed to _delete_locations is absent from the source folder
\* of that level, when the run started and for as long as the user has
\* not edited the source since; it is not in the list handed to
\* _copy_new_modified_files at that level; and no deletion of the log
\* removes a path a copy of the same run wrote, or a folder above such a
\* path.
C19_PurgeSparesSource ==
    /\ \A i \in DOMAIN Frames :
          LET f == Frames[i]
          IN  \A j \in DOMAIN f.del :
                 /\ ~Exists(fs0, Join(f.src, f.del[j]))
                 /\ NoEditSinceStart => ~Exists(fs, Join(f.src, f.del[j]))
                 /\ ~InList(f.del[j], f.copy)
    /\ \A l \in DOMAIN log, m \in DOMAIN log :
          (log[l].k \in CopyKinds /\ log[m].k \in DeleteKinds) =>
             ~IsPrefix(log[m].s, log[l].r)

\* An invocation that has returned after it copied and deleted entries.
C19_Witness ==
    \E i \in DOMAIN fin :
       LET f == fin[i]
       IN  /\ f.out = "Done"
           /\ Len(f.copy) >= 1
           /\ Len(f.del) >= 1
           /\ f.ci = Len(f.copy)
           /\ f.di = Len(f.del)

----------------------------------------------------------------------------
(* Termination *)

\* The run has ended with every invocation returned.
Completed ==
    /\ status = "returned"
    /\ stack = <<>>
    /\ \A i \in DOMAIN fin :
          fin[i].out \in {"Done", "FullCopy", "CopyFailed", "PurgeFailed"}

\* The run has ended with the missing-source failure.
MissingSourceFailure == status = "raised" /\ exc = "FileNotFoundError"

\* A run that has started ends.
RunEnds == (status = "running") ~> Ended

\* No two invocations of a run are made on the same folder, and every
\* recursive invocation is made on a path that was a folder in both trees
\* when the run started.
OneInvocationPerCommonFolder ==
    /\ \A i \in DOMAIN Frames, j \in DOMAIN Frames :
          i # j => Frames[i].src # Frames[j].src
    /\ \A i \in DOMAIN Frames :
          LET f == Frames[i]
          IN  /\ Tail(f.src) = Tail(f.rep)
              /\ f.src # SRC => IsDirPath(fs0, f.src) /\ IsDirPath(fs0, f.rep)

\* C18 - Termination: a run that has started ends; it ends with every
\* invocation returned or with the missing-source failure; and it makes
\* at most one invocation per folder common to both trees.
C18_Termination ==
    /\ RunEnds
    /\ [](Ended => (Completed \/ MissingSourceFailure))
    /\ []OneInvocationPerCommonFolder

----------------------------------------------------------------------------
(* The scheduler *)

\* The positions of the crontab t that hold a job with command c.
JobsFor(t, c) == {i \in DOMAIN t : t[i].command = c}

HowMany(t, c) == Cardinality(JobsFor(t, c))

\* The jobs of t with another command than c, in their order.
Others(t, c) == SelectSeq(t, LAMBDA j : j.command # c)

\* Calls i and j are two additions of the same command, with no call for
\* that command between them.
AddedTwice(i, j) ==
    /\ i < j
    /\ calls[i].op = "add"
    /\ calls[j].op = "add"
    /\ calls[i].command = calls[j].command
    /\ \A k \in (i + 1)..(j - 1) : calls[k].command # calls[i].command

\* Every job with command c has the frequency n.
AllEvery(t, c, n) == \A x \in JobsFor(t, c) : t[x].every = n

\* A removal that finds no job changes nothing and prints the no-match
\* message; it is in calls, so it returned.
RemoveWithoutMatch ==
    \A i \in DOMAIN calls :
       (calls[i].op = "del" /\ JobsFor(calls[i].before, calls[i].command) = {}) =>
          /\ calls[i].after = calls[i].before
          /\ calls[i].said = "nomatch"

\* C11 - Scheduler add/remove idempotence, as stated: after a command was
\* added twice the crontab holds a single job for it, with the frequency
\* of the second addition; a removal without a matching job changes
\* nothing, prints the no-match message and returns.
C11_SchedulerIdempotence ==
    /\ \A i \in DOMAIN calls, j \in DOMAIN calls :
          AddedTwice(i, j) =>
             /\ HowMany(calls[j].after, calls[j].command) = 1
             /\ AllEvery(calls[j].after, calls[j].command, calls[j].interval)
    /\ RemoveWithoutMatch

\* C11, amended: the second addition of a command creates no job: the
\* crontab holds as many jobs for the command as after the first addition,
\* which is one if the crontab held at most one before the first addition
\* and the number it held otherwise; all of them have the frequency of the
\* second addition, and the jobs of other commands are as they were.  A
\* removal without a matching job changes nothing, prints the no-match
\* message and returns.
C11_NoDuplicateCreated ==
    /\ \A i \in DOMAIN calls, j \in DOMAIN calls :
          AddedTwice(i, j) =>
             LET c == calls[j].command
                 had == HowMany(calls[i].before, c)
             IN  /\ HowMany(calls[j].after, c) = HowMany(calls[i].after, c)
                 /\ HowMany(calls[j].after, c) = (IF had = 0 THEN 1 ELSE had)
                 /\ AllEvery(calls[j].after, c, calls[j].interval)
                 /\ Others(calls[j].after, c) = Others(calls[j].before, c)
                 /\ calls[j].said = "exists"
    /\ RemoveWithoutMatch
    /\ calls # <<>> => tab = calls[Len(calls)].after

\* A command that was not in the crontab was added twice with different
\* frequencies, and a removal found no job.
C11_Witness ==
    /\ \E i \in DOMAIN calls, j \in DOMAIN calls :
          /\ AddedTwice(i, j)
          /\ calls[i].interval # calls[j].interval
          /\ HowMany(calls[i].before, calls[i].command) = 0
    /\ \E k \in DOMAIN calls :
          /\ calls[k].op = "del"
          /\ calls[k].said = "nomatch"
          /\ calls[k].before # <<>>

\* C20 - The entry point: main.py ends with the invalid-mode error only
\* if the mode, in lower case, is neither "add" nor "del"; with "add" it
\* makes exactly one call of add_job_to_crontab for the command and the
\* interval, with "del" exactly one call of del_job_from_crontab, and in
\* both cases it ends without an error.
C20_InvalidModeOnly ==
    \A i \in DOMAIN mains :
       LET m == mains[i]
           valid == Lower(m.mode) \in {_MODE_ADD, _MODE_DEL}
       IN  /\ m.ended = "ValueError" => ~valid
           /\ valid =>
                 /\ m.ended = "returned"
                 /\ Len(m.made) = 1
                 /\ m.made[1].op = Lower(m.mode)
                 /\ m.made[1].command = m.command
                 /\ m.made[1].op = "add" => m.made[1].interval = m.interval

====
